---- MODULE Spec2Model ----
(***************************************************************************)
(* A model of pico (src/pico.c): the line list, the cursor, the edit       *)
(* operations, load/save and the scroll arithmetic of refresh_screen.      *)
(*                                                                         *)
(* The C functions are state-passing operators over a record s of the      *)
(* program's globals (St below); an action applies them to the current     *)
(* state and commits the result.  Lines live in a heap of cells addressed  *)
(* by node ids, NULL being 0; bytes are their integer codes.               *)
(*                                                                         *)
(* Four specifications share the operators: Spec (short documents, every   *)
(* terminal size), SpecWide (terminals of ten columns and more), SpecLong  *)
(* (lines around INITIAL_CAP bytes, loaded byte by byte, with allocation   *)
(* failure) and SpecSig (the main loop statement by statement, SIGWINCH    *)
(* delivered between any two statements, under weak fairness).             *)
(***************************************************************************)
EXTENDS Integers, Sequences, FiniteSets, TLC

\* ------------------------------------------------------------ bounds
\* At most MaxLines lines are ever linked (Enter is disabled beyond).
MaxLines == 3
\* At most MaxBytes bytes of text in the whole buffer (typing is disabled beyond).
MaxBytes == 2

\* The long documents hold at most INITIAL_CAP + Slack bytes of text.
Slack == 1
\* At most MaxSignals SIGWINCH are delivered in a run of the step-by-step loop.
MaxSignals == 2

\* --------------------------------------------------- program constants
NULL == 0
ARROW_UP == 500
ARROW_DOWN == 501
ARROW_LEFT == 502
ARROW_RIGHT == 503
ENTER == 13
BACKSPACE == 127
ESC == 27
INITIAL_CAP == 128
\* CONTROL_KEY('q') and CONTROL_KEY('s'): toupper(k) - 'A' + 1
CTRL_Q == 17
CTRL_S == 19
\* read_key's "no byte within the timeout"
NoKey == -1
\* '\n'
NL == 10
\* the horizontal scroll margin of get_window_size
ScrollMargin == 10
\* get_window_size's fallback dimensions
FallbackRows == 24
FallbackCols == 80

\* Mutant: every byte passes.
AnyByte(c) == TRUE

\* isprint() in the C locale
isprint(c) == c \in 32..126

\* ------------------------------------------------------------- inputs
\* The bytes a user types in the model: 'a', 'b'; '\n' (Ctrl-J) and ESC are
\* bytes process_input has no case for and isprint rejects.
PrintableKeys == {97, 98}
OtherKeys == {NL, ESC}
ArrowKeys == {ARROW_UP, ARROW_DOWN, ARROW_LEFT, ARROW_RIGHT}
Keys == PrintableKeys \cup OtherKeys \cup ArrowKeys \cup {ENTER, BACKSPACE, CTRL_S}

\* What ioctl(TIOCGWINSZ) may report: a terminal one column wider than the
\* scroll margin, and one narrower than it.  Both have ws_row >= 2, that is at
\* least one text row above the status line.
WinSizes == { [ok |-> TRUE, ws_row |-> 3, ws_col |-> 11],
              [ok |-> TRUE, ws_row |-> 2, ws_col |-> 5] }
\* The sizes at least as wide as the scroll margin.
WideSizes == { w \in WinSizes : w.ws_col >= ScrollMargin }

\* File contents: bytes over 'a', 'b', '\n' that load into at most MaxLines
\* lines holding at most MaxBytes bytes.
FileBytes == {97, 98, NL}
Occurrences(q, b) == Cardinality({i \in 1..Len(q) : q[i] = b})
Contents == { q \in UNION { [1..n -> FileBytes] : n \in 0..(MaxBytes + MaxLines - 1) } :
                /\ Occurrences(q, NL) <= MaxLines - 1
                /\ Len(q) - Occurrences(q, NL) <= MaxBytes }
NoFile == [exists |-> FALSE, bytes |-> <<>>]
Files == { [exists |-> TRUE, bytes |-> q] : q \in Contents } \cup {NoFile}

\* Long documents: one or two lines of 'a' whose lengths straddle INITIAL_CAP, so
\* that expand_line reallocates while loading and editing them.
Run(k) == [i \in 1..k |-> 97]
LongMin == INITIAL_CAP - 2
LongMax == INITIAL_CAP + Slack
LongContents ==
    { Run(k) : k \in LongMin..LongMax }
      \cup { Run(k) \o <<NL>> \o Run(j) : k \in LongMin..LongMax, j \in 0..Slack + 2 }
LongFiles == { [exists |-> TRUE, bytes |-> q] :
                 q \in { c \in LongContents : Len(c) - Occurrences(c, NL) <= LongMax } }
\* The keys typed into a long document: 'a', Enter, Backspace and Down.
LongKeys == {97, ENTER, BACKSPACE, ARROW_DOWN}

\* -------------------------------------------------------------- state
Node == 1..MaxLines

VARIABLES
    heap,              \* line_t cells: text, len, cap, next, prev (live: allocated)
    first_line, current_line,
    cursor_row, cursor_col,
    viewport_row, viewport_col, max_viewport_col,
    term_rows, term_cols,
    resize_pending,
    file,              \* the file main loads; forgotten at the first edit key
                       \* (in SpecLong: what read_file has not read yet)
    pc,                \* "main", "read" (main:542), "refresh" (main:545), "exit",
                       \* "load" (read_file:291), "abort" (fatal); in SpecSig the
                       \* statement about to run, see the step-by-step loop
    key,               \* the key process_input has just handled (NoKey otherwise)
    written,           \* the bytes save_file wrote in the step just taken
    pre,               \* the globals as they were when the last key was read
    caller,            \* where refresh_screen returns to: "main", "loop" or "key"
    ws,                \* get_window_size's local struct winsize, once ioctl filled it
    tty,               \* the size the terminal has (what ioctl reads), in SpecSig
    notified           \* the number of SIGWINCH delivered so far, in SpecSig

\* The variables only the step-by-step loop (SpecSig) uses.
sigvars == << caller, ws, tty, notified >>

vars == << heap, first_line, current_line, cursor_row, cursor_col, viewport_row,
           viewport_col, max_viewport_col, term_rows, term_cols, resize_pending,
           file, pc, key, written, pre, caller, ws, tty, notified >>

\* No size: ws before ioctl has filled it.
NoSize == [ok |-> FALSE, ws_row |-> 0, ws_col |-> 0]

\* The program's globals as one record.
St == [ heap |-> heap, first_line |-> first_line, current_line |-> current_line,
        cursor_row |-> cursor_row, cursor_col |-> cursor_col,
        viewport_row |-> viewport_row, viewport_col |-> viewport_col,
        max_viewport_col |-> max_viewport_col,
        term_rows |-> term_rows, term_cols |-> term_cols,
        resize_pending |-> resize_pending ]

Commit(s) ==
    /\ heap' = s.heap
    /\ first_line' = s.first_line
    /\ current_line' = s.current_line
    /\ cursor_row' = s.cursor_row
    /\ cursor_col' = s.cursor_col
    /\ viewport_row' = s.viewport_row
    /\ viewport_col' = s.viewport_col
    /\ max_viewport_col' = s.max_viewport_col
    /\ term_rows' = s.term_rows
    /\ term_cols' = s.term_cols
    /\ resize_pending' = s.resize_pending

\* ----------------------------------------------------------- the heap
FreeCell == [text |-> <<>>, len |-> 0, cap |-> 0, next |-> NULL, prev |-> NULL,
             live |-> FALSE]

\* malloc: the lowest free cell (which cell is returned is not observable).
Malloc(h) == CHOOSE n \in Node : ~h[n].live /\ \A m \in Node : ~h[m].live => n <= m

\* new_line(): the heap with the cell Malloc(h) initialised.
new_line(h) ==
    [h EXCEPT ![Malloc(h)] = [text |-> <<>>, len |-> 0, cap |-> INITIAL_CAP,
                              next |-> NULL, prev |-> NULL, live |-> TRUE]]

\* The nodes from p along next (at most fuel of them).
RECURSIVE Chain(_, _, _)
Chain(h, p, fuel) ==
    IF p = NULL \/ fuel = 0 THEN <<>> ELSE <<p>> \o Chain(h, h[p].next, fuel - 1)

\* The bytes of a line: text[0 .. len).
Content(cell) == SubSeq(cell.text, 1, cell.len)

\* The document: the contents of the lines from first_line, in order.
Lines(s) ==
    LET c == Chain(s.heap, s.first_line, MaxLines + 1)
    IN  [i \in 1..Len(c) |-> Content(s.heap[c[i]])]

get_total_lines(s) == Len(Chain(s.heap, s.first_line, MaxLines + 1))

\* Mutant: the head is set to the successor whichever line is removed.
HeadAlwaysSuccessor(h, l, first) == h[l].next

\* delete_line: the head after the removal (lines 167-171 and 186-188).
HeadAfterDelete(h, l, first) ==
    LET f1 == IF h[l].prev = NULL /\ h[l].next # NULL THEN h[l].next ELSE first
    IN  IF f1 = l THEN h[l].next ELSE f1

\* Mutant: the successor's prev is not relinked.
UnlinkForwardOnly(h, l) ==
    IF h[l].prev # NULL THEN [h EXCEPT ![h[l].prev].next = h[l].next] ELSE h

\* delete_line: the neighbours relinked around l (lines 179-184).
Unlink(h, l) ==
    LET h1 == IF h[l].prev # NULL THEN [h EXCEPT ![h[l].prev].next = h[l].next] ELSE h
    IN  IF h[l].next # NULL THEN [h1 EXCEPT ![h[l].next].prev = h[l].prev] ELSE h1

\* Mutant: the successor is preferred to the predecessor as the line returned.
ReturnSuccessorFirst(h, l, first) ==
    IF h[l].prev = NULL /\ h[l].next = NULL
    THEN [heap |-> [h EXCEPT ![l].len = 0, ![l].text = <<>>],
          first_line |-> first, ret |-> l]
    ELSE [heap |-> [Unlink(h, l) EXCEPT ![l] = FreeCell],
          first_line |-> HeadAfterDelete(h, l, first),
          ret |-> IF h[l].next # NULL THEN h[l].next ELSE h[l].prev]

delete_line(h, l, first) ==
    IF h[l].prev = NULL /\ h[l].next = NULL
    THEN [heap |-> [h EXCEPT ![l].len = 0, ![l].text = <<>>],
          first_line |-> first, ret |-> l]
    ELSE [heap |-> [Unlink(h, l) EXCEPT ![l] = FreeCell],
          first_line |-> HeadAfterDelete(h, l, first),
          ret |-> IF h[l].prev # NULL THEN h[l].prev ELSE h[l].next]

\* Mutant: new->next is left NULL.
LinkDroppingRest(h, cur, new) ==
    [h EXCEPT ![new].prev = cur, ![cur].next = new]

link_new_line(h, cur, new) ==
    LET h1 == [h EXCEPT ![new].prev = cur, ![new].next = h[cur].next]
        h2 == IF h[cur].next # NULL THEN [h1 EXCEPT ![h[cur].next].prev = new] ELSE h1
    IN  [h2 EXCEPT ![cur].next = new]

\* Mutant: the line grows only once the bytes no longer fit (> for >=).
ExpandWhenOver(h, line, needed) ==
    IF h[line].len + needed > h[line].cap
    THEN [h EXCEPT ![line].cap = (h[line].len + needed) * 2]
    ELSE h

\* expand_line, line 206: realloc is called.
Reallocates(h, line, needed) == h[line].len + needed >= h[line].cap

expand_line(h, line, needed) ==
    IF h[line].len + needed >= h[line].cap
    THEN [h EXCEPT ![line].cap = (h[line].len + needed) * 2]
    ELSE h

\* ---------------------------------------------------- edit operations
\* Mutant: c is stored after the last byte instead of at col.
InsertAtEnd(text, len, col, c) == SubSeq(text, 1, len) \o <<c>>

\* Mutant: memmove moves one byte too few; the line's last byte is lost and the
\* old terminator (0) stays in its place.
InsertAtDroppingLast(text, len, col, c) ==
    IF col < len THEN SubSeq(text, 1, col) \o <<c>> \o SubSeq(text, col + 1, len - 1) \o <<0>>
    ELSE SubSeq(text, 1, col) \o <<c>>

\* insert_char, lines 278-281: the text after memmove and the store of c.
InsertAt(text, len, col, c) ==
    SubSeq(text, 1, col) \o <<c>> \o SubSeq(text, col + 1, len)

insert_char(s, c) ==
    LET cur == s.current_line
        h1  == expand_line(s.heap, cur, 1)
    IN  [s EXCEPT !.heap = [h1 EXCEPT ![cur].text = InsertAt(h1[cur].text, h1[cur].len,
                                                              s.cursor_col, c),
                                      ![cur].len = h1[cur].len + 1],
                  !.cursor_col = s.cursor_col + 1]

\* Mutant: the tail is copied and the current line is not truncated.
SplitTailKept(h, cur, new, col) ==
    LET tail_len == h[cur].len - col
        h1 == expand_line(h, new, tail_len)
    IN  [h1 EXCEPT ![new].text = SubSeq(h1[cur].text, col + 1, col + tail_len),
                   ![new].len = tail_len]

\* insert_newline, lines 221-229: the tail of cur from col moves to new.
SplitTail(h, cur, new, col) ==
    LET tail_len == h[cur].len - col
        h1 == expand_line(h, new, tail_len)
    IN  [h1 EXCEPT ![new].text = SubSeq(h1[cur].text, col + 1, col + tail_len),
                   ![new].len = tail_len,
                   ![cur].len = col,
                   ![cur].text = SubSeq(h1[cur].text, 1, col)]

insert_newline(s) ==
    LET new == Malloc(s.heap)
        h0  == new_line(s.heap)
        cur == s.current_line
        h1  == IF s.cursor_col < h0[cur].len THEN SplitTail(h0, cur, new, s.cursor_col)
               ELSE h0
    IN  [s EXCEPT !.heap = link_new_line(h1, cur, new),
                  !.current_line = new,
                  !.cursor_col = 0,
                  !.cursor_row = s.cursor_row + 1]

\* Mutant: cur's content is put before prev's instead of after it.
MergePrepending(h, prev, cur) ==
    [h EXCEPT ![prev].text = SubSeq(h[cur].text, 1, h[cur].len)
                               \o SubSeq(h[prev].text, 1, h[prev].len),
              ![prev].len = h[prev].len + h[cur].len]

\* delete_char, lines 260-266: cur's content appended to prev.
MergeInto(h, prev, cur) ==
    LET prev_len == h[prev].len
        h1 == expand_line(h, prev, h[cur].len)
    IN  [h1 EXCEPT ![prev].text = SubSeq(h1[prev].text, 1, prev_len)
                                    \o SubSeq(h1[cur].text, 1, h1[cur].len),
                   ![prev].len = prev_len + h1[cur].len]

\* delete_char, lines 251-254: the text after memmove, one byte shorter.
RemoveBefore(text, len, col) ==
    SubSeq(text, 1, col - 1) \o SubSeq(text, col + 1, len)

\* Mutant: the byte branch is taken at column 0 too (>= for >).
DeleteAtColumnZero(s) ==
    LET cur == s.current_line
        h   == s.heap
    IN  IF s.cursor_col >= 0 /\ h[cur].len > 0
        THEN [s EXCEPT !.heap = [h EXCEPT ![cur].text = RemoveBefore(h[cur].text, h[cur].len,
                                                                      s.cursor_col),
                                          ![cur].len = h[cur].len - 1],
                       !.cursor_col = s.cursor_col - 1]
        ELSE s

delete_char(s) ==
    LET cur == s.current_line
        h   == s.heap
    IN  IF s.cursor_col > 0 /\ h[cur].len > 0
        THEN [s EXCEPT !.heap = [h EXCEPT ![cur].text = RemoveBefore(h[cur].text, h[cur].len,
                                                                      s.cursor_col),
                                          ![cur].len = h[cur].len - 1],
                       !.cursor_col = s.cursor_col - 1]
        ELSE IF s.cursor_col = 0 /\ s.cursor_row > 0 /\ h[cur].prev # NULL
        THEN LET prev == h[cur].prev
                 d == delete_line(MergeInto(h, prev, cur), cur, s.first_line)
             IN  [s EXCEPT !.heap = d.heap,
                           !.first_line = d.first_line,
                           !.current_line = d.ret,
                           !.cursor_row = s.cursor_row - 1,
                           !.cursor_col = h[prev].len]
        ELSE s

\* ------------------------------------------------- allocation failure
\* The globals at the call of fatal() when an allocation fails inside an edit
\* operation.  expand_line has stored the new cap before realloc returns NULL
\* (lines 207-211); new_line has changed nothing when either malloc fails
\* (lines 145-153).
insert_char_fatal(s) ==
    IF Reallocates(s.heap, s.current_line, 1)
    THEN {[s EXCEPT !.heap = expand_line(s.heap, s.current_line, 1)]}
    ELSE {}

\* Mutant: the current line is truncated before the new line is grown.
TruncateBeforeExpand(s) ==
    LET new == Malloc(s.heap)
        h0  == new_line(s.heap)
        cur == s.current_line
        tail_len == h0[cur].len - s.cursor_col
    IN  {s} \cup
        (IF s.cursor_col < h0[cur].len /\ Reallocates(h0, new, tail_len)
         THEN {[s EXCEPT !.heap = [expand_line(h0, new, tail_len) EXCEPT
                                      ![cur].len = s.cursor_col,
                                      ![cur].text = SubSeq(h0[cur].text, 1, s.cursor_col)]]}
         ELSE {})

\* insert_newline: new_line fails (line 217), or expand_line on the new,
\* still unlinked, line (line 222).
insert_newline_fatal(s) ==
    LET new == Malloc(s.heap)
        h0  == new_line(s.heap)
        cur == s.current_line
        tail_len == h0[cur].len - s.cursor_col
    IN  {s} \cup
        (IF s.cursor_col < h0[cur].len /\ Reallocates(h0, new, tail_len)
         THEN {[s EXCEPT !.heap = expand_line(h0, new, tail_len)]}
         ELSE {})

\* delete_char: expand_line on the previous line fails in the merge (line 261).
delete_char_fatal(s) ==
    LET cur == s.current_line
        h   == s.heap
    IN  IF /\ ~(s.cursor_col > 0 /\ h[cur].len > 0)
           /\ s.cursor_col = 0 /\ s.cursor_row > 0 /\ h[cur].prev # NULL
           /\ Reallocates(h, h[cur].prev, h[cur].len)
        THEN {[s EXCEPT !.heap = expand_line(h, h[cur].prev, h[cur].len)]}
        ELSE {}

\* -------------------------------------------------------- load and save
\* read_file's loop body, lines 292-301, for the byte b that fgetc returned; cur
\* is the function's local current_line.
ReadStep(h, cur, b) ==
    IF b = NL
    THEN LET new == Malloc(h)
         IN  [heap |-> link_new_line(new_line(h), cur, new), cur |-> new]
    ELSE LET h1 == expand_line(h, cur, 1)
         IN  [heap |-> [h1 EXCEPT ![cur].text = SubSeq(h1[cur].text, 1, h1[cur].len)
                                                 \o <<b>>,
                                  ![cur].len = h1[cur].len + 1],
              cur |-> cur]

\* read_file's loop over the bytes fgetc returns, from byte i on.
RECURSIVE ReadLoop(_, _, _, _)
ReadLoop(h, cur, bytes, i) ==
    IF i > Len(bytes) THEN h
    ELSE LET r == ReadStep(h, cur, bytes[i])
         IN  ReadLoop(r.heap, r.cur, bytes, i + 1)

\* read_file leaves the global current_line alone (its current_line is a local).
read_file(s, bytes) == [s EXCEPT !.heap = ReadLoop(s.heap, s.first_line, bytes, 1)]

\* save_file's do-while from line on: the line's bytes, then '\n' if a line follows.
RECURSIVE SaveLoop(_, _, _)
SaveLoop(h, line, fuel) ==
    IF fuel = 0 THEN <<>>
    ELSE Content(h[line]) \o
         (IF h[line].next # NULL THEN <<NL>> \o SaveLoop(h, h[line].next, fuel - 1)
          ELSE <<>>)

\* Mutant: a line break is written after the last line too.
SaveTrailingBreak(s) ==
    IF s.first_line # NULL THEN SaveLoop(s.heap, s.first_line, MaxLines + 1) \o <<NL>>
    ELSE <<>>

\* The bytes save_file writes.
save_file(s) ==
    IF s.first_line # NULL THEN SaveLoop(s.heap, s.first_line, MaxLines + 1) ELSE <<>>

\* ------------------------------------------------- viewport and redraw
\* get_window_size with w what ioctl reports (ok: the call succeeded).
get_window_size(s, w) ==
    LET fallback == ~w.ok \/ w.ws_col = 0
        rows == IF fallback THEN FallbackRows ELSE w.ws_row - 1
        cols == IF fallback THEN FallbackCols ELSE w.ws_col
    IN  [s EXCEPT !.term_rows = rows, !.term_cols = cols,
                  !.max_viewport_col = cols - ScrollMargin]

\* Mutant: the viewport never scrolls down to the cursor.
ScrollUpOnly(s) ==
    IF s.cursor_row < s.viewport_row THEN s.cursor_row ELSE s.viewport_row

\* check_scroll, lines 344-349.
ScrollRow(s) ==
    IF s.cursor_row < s.viewport_row THEN s.cursor_row
    ELSE IF s.cursor_row >= s.viewport_row + s.term_rows
         THEN s.cursor_row - s.term_rows + 1
         ELSE s.viewport_row

\* check_scroll, lines 351-361.
ScrollCol(s) ==
    IF s.current_line = NULL THEN s.viewport_col
    ELSE LET v == IF s.cursor_col < s.viewport_col THEN s.cursor_col
                  ELSE IF s.cursor_col > s.viewport_col + s.max_viewport_col
                       THEN s.cursor_col - s.max_viewport_col
                       ELSE s.viewport_col
         IN  IF v < 0 THEN 0 ELSE v

check_scroll(s) == [s EXCEPT !.viewport_row = ScrollRow(s), !.viewport_col = ScrollCol(s)]

\* draw_rows, lines 370-372: skip i lines from p.
RECURSIVE SkipLines(_, _, _)
SkipLines(h, p, i) == IF i > 0 /\ p # NULL THEN SkipLines(h, h[p].next, i - 1) ELSE p

\* draw_rows, lines 374-397: the line found at the cursor's row, cur if none.
RECURSIVE RenderLoop(_, _, _, _)
RenderLoop(s, temp_curr, screen_row, cur) ==
    IF temp_curr # NULL /\ screen_row < s.term_rows
    THEN RenderLoop(s, s.heap[temp_curr].next, screen_row + 1,
                    IF s.cursor_row = s.viewport_row + screen_row THEN temp_curr ELSE cur)
    ELSE cur

\* Mutant: the column is not clamped to the line's length.
ClampRowOnly(s) ==
    LET total_lines == get_total_lines(s)
        r1 == IF s.cursor_row >= total_lines THEN total_lines - 1 ELSE s.cursor_row
    IN  [s EXCEPT !.cursor_row = IF r1 < 0 THEN 0 ELSE r1]

\* draw_rows, lines 403-413: the cursor clamped to the file.
ClampCursor(s) ==
    LET total_lines == get_total_lines(s)
        r1 == IF s.cursor_row >= total_lines THEN total_lines - 1 ELSE s.cursor_row
        r2 == IF r1 < 0 THEN 0 ELSE r1
        c  == IF s.current_line # NULL /\ s.cursor_col > s.heap[s.current_line].len
              THEN s.heap[s.current_line].len ELSE s.cursor_col
    IN  [s EXCEPT !.cursor_row = r2, !.cursor_col = c]

draw_rows(s) ==
    ClampCursor([s EXCEPT !.current_line =
        RenderLoop(s, SkipLines(s.heap, s.first_line, s.viewport_row), 0, s.first_line)])

\* refresh_screen, lines 510-513, with w what ioctl would report.
ServeResize(s, w) ==
    IF s.resize_pending # 0 THEN get_window_size([s EXCEPT !.resize_pending = 0], w) ELSE s

refresh_screen(s, w) == draw_rows(check_scroll(ServeResize(s, w)))

\* The cursor on the screen, as refresh_screen passes it to move_cursor_to (0-based).
screen_row(s) == s.cursor_row - s.viewport_row
screen_col(s) == s.cursor_col - s.viewport_col

\* ------------------------------------------------------------- input
\* Mutant: Left at column 0 wraps to the length of the line it leaves.
LeftWrapsToOwnLength(s, c) ==
    LET cur == s.current_line
        h   == s.heap
    IN  CASE c = CTRL_S -> s
          [] c = ARROW_UP ->
               IF s.cursor_row > 0 THEN [s EXCEPT !.cursor_row = s.cursor_row - 1] ELSE s
          [] c = ARROW_DOWN ->
               IF cur # NULL /\ h[cur].next # NULL
               THEN [s EXCEPT !.cursor_row = s.cursor_row + 1] ELSE s
          [] c = ARROW_LEFT ->
               IF s.cursor_col > 0 THEN [s EXCEPT !.cursor_col = s.cursor_col - 1]
               ELSE IF s.cursor_row > 0
                    THEN [s EXCEPT !.cursor_row = s.cursor_row - 1,
                                   !.cursor_col = h[cur].len]
                    ELSE s
          [] c = ARROW_RIGHT ->
               IF cur # NULL /\ s.cursor_col < h[cur].len
               THEN [s EXCEPT !.cursor_col = s.cursor_col + 1]
               ELSE IF cur # NULL /\ h[cur].next # NULL
                    THEN [s EXCEPT !.cursor_row = s.cursor_row + 1, !.cursor_col = 0]
                    ELSE s
          [] c = ENTER -> insert_newline(s)
          [] c = BACKSPACE -> delete_char(s)
          [] OTHER -> IF isprint(c) THEN insert_char(s, c) ELSE s

\* process_input for every key but Ctrl-Q (save_file's output is `written`).
process_input(s, c) ==
    LET cur == s.current_line
        h   == s.heap
    IN  CASE c = CTRL_S -> s
          [] c = ARROW_UP ->
               IF s.cursor_row > 0 THEN [s EXCEPT !.cursor_row = s.cursor_row - 1] ELSE s
          [] c = ARROW_DOWN ->
               IF cur # NULL /\ h[cur].next # NULL
               THEN [s EXCEPT !.cursor_row = s.cursor_row + 1] ELSE s
          [] c = ARROW_LEFT ->
               IF s.cursor_col > 0 THEN [s EXCEPT !.cursor_col = s.cursor_col - 1]
               ELSE IF s.cursor_row > 0
                    THEN [s EXCEPT !.cursor_row = s.cursor_row - 1,
                                   !.cursor_col = h[h[cur].prev].len]
                    ELSE s
          [] c = ARROW_RIGHT ->
               IF cur # NULL /\ s.cursor_col < h[cur].len
               THEN [s EXCEPT !.cursor_col = s.cursor_col + 1]
               ELSE IF cur # NULL /\ h[cur].next # NULL
                    THEN [s EXCEPT !.cursor_row = s.cursor_row + 1, !.cursor_col = 0]
                    ELSE s
          [] c = ENTER -> insert_newline(s)
          [] c = BACKSPACE -> delete_char(s)
          [] OTHER -> IF isprint(c) THEN insert_char(s, c) ELSE s

\* The keys that reach insert_char, insert_newline or delete_char.
EditKey(c) == c = ENTER \/ c = BACKSPACE \/ (c \notin ArrowKeys /\ c # CTRL_S /\ isprint(c))

\* The bytes of text in the buffer.
RECURSIVE SumLen(_)
SumLen(q) == IF q = <<>> THEN 0 ELSE Len(Head(q)) + SumLen(Tail(q))
TotalBytes(s) == SumLen(Lines(s))

\* ------------------------------------------------------------ actions
Init ==
    /\ heap = [n \in Node |-> FreeCell]
    /\ first_line = NULL /\ current_line = NULL
    /\ cursor_row = 0 /\ cursor_col = 0
    /\ viewport_row = 0 /\ viewport_col = 0 /\ max_viewport_col = 0
    /\ term_rows = 24 /\ term_cols = 80
    /\ resize_pending = 0
    /\ file \in Files
    /\ pc = "main"
    /\ key = NoKey
    /\ written = <<>>
    /\ pre = St
    /\ caller = "main" /\ ws = NoSize /\ tty = NoSize /\ notified = 0

\* The globals after the step, for pre.
StNext == [ heap |-> heap', first_line |-> first_line', current_line |-> current_line',
            cursor_row |-> cursor_row', cursor_col |-> cursor_col',
            viewport_row |-> viewport_row', viewport_col |-> viewport_col',
            max_viewport_col |-> max_viewport_col',
            term_rows |-> term_rows', term_cols |-> term_cols',
            resize_pending |-> resize_pending' ]

\* main, lines 524-536: the window size (ioctl reports w), the first line, the
\* file, the first render.
Start(w) ==
    /\ pc = "main"
    /\ LET s0 == get_window_size(St, w)
           n  == Malloc(s0.heap)
           s1 == [s0 EXCEPT !.heap = new_line(s0.heap), !.first_line = n,
                            !.current_line = n]
           s2 == IF file.exists THEN read_file(s1, file.bytes) ELSE s1
       IN  Commit(refresh_screen(s2, w))
    /\ pc' = "read"
    /\ pre' = StNext
    /\ UNCHANGED << file, key, written >>
    /\ UNCHANGED sigvars

\* SIGWINCH: handle_sigwinch has run (the size is read later, by ioctl).
Sigwinch ==
    /\ pc = "read"
    /\ resize_pending' = 1
    /\ pre' = [pre EXCEPT !.resize_pending = 1]
    /\ UNCHANGED << heap, first_line, current_line, cursor_row, cursor_col, viewport_row,
                    viewport_col, max_viewport_col, term_rows, term_cols, file, pc, key,
                    written >>
    /\ UNCHANGED sigvars

\* main, lines 539-541: a pending resize is served before the next read; ioctl
\* reports w.
ResizeRefresh(w) ==
    /\ pc = "read"
    /\ resize_pending # 0
    /\ Commit(refresh_screen(St, w))
    /\ pre' = StNext
    /\ UNCHANGED << file, pc, key, written >>
    /\ UNCHANGED sigvars

\* main, lines 542-544: read_key returns c and process_input handles it.
Key(c) ==
    /\ pc = "read"
    /\ isprint(c) /\ c \notin ArrowKeys => TotalBytes(St) < MaxBytes
    /\ c = ENTER => get_total_lines(St) < MaxLines
    /\ Commit(process_input(St, c))
    /\ key' = c
    /\ written' = IF c = CTRL_S THEN save_file(St) ELSE <<>>
    /\ file' = IF EditKey(c) THEN NoFile ELSE file
    /\ pc' = "refresh"
    /\ UNCHANGED pre
    /\ UNCHANGED sigvars

\* The sizes ioctl may report in a refresh pass: it is called only if a resize
\* is pending.
Reported(sizes) == IF resize_pending # 0 THEN sizes ELSE {CHOOSE w \in sizes : TRUE}

\* main, line 545: the refresh pass after the key; ioctl reports w.
Refresh(w) ==
    /\ pc = "refresh"
    /\ Commit(refresh_screen(St, w))
    /\ pc' = "read"
    /\ key' = NoKey
    /\ written' = <<>>
    /\ pre' = StNext
    /\ UNCHANGED file
    /\ UNCHANGED sigvars

\* main, lines 542-543 and 548: read_key returns -1, nothing happens.
NoEvent ==
    /\ pc = "read"
    /\ UNCHANGED vars

\* process_input, lines 418-420: Ctrl-Q.
Quit ==
    /\ pc = "read"
    /\ pc' = "exit"
    /\ UNCHANGED << heap, first_line, current_line, cursor_row, cursor_col, viewport_row,
                    viewport_col, max_viewport_col, term_rows, term_cols, resize_pending,
                    file, key, written, pre >>
    /\ UNCHANGED sigvars

Next ==
    \/ \E w \in WinSizes : Start(w)
    \/ Sigwinch
    \/ \E w \in WinSizes : ResizeRefresh(w)
    \/ \E c \in Keys : Key(c)
    \/ \E w \in Reported(WinSizes) : Refresh(w)
    \/ NoEvent
    \/ Quit

Spec == Init /\ [][Next]_vars

\* The program on terminals that are never narrower than the scroll margin.
NextWide ==
    \/ \E w \in WideSizes : Start(w)
    \/ Sigwinch
    \/ \E w \in WideSizes : ResizeRefresh(w)
    \/ \E c \in Keys : Key(c)
    \/ \E w \in Reported(WideSizes) : Refresh(w)
    \/ NoEvent
    \/ Quit

SpecWide == Init /\ [][NextWide]_vars

\* The states in which process_input(c) can reach fatal() on a failed allocation.
process_input_fatal(s, c) ==
    CASE c = ENTER -> insert_newline_fatal(s)
      [] c = BACKSPACE -> delete_char_fatal(s)
      [] OTHER -> IF c \notin ArrowKeys /\ c # CTRL_S /\ isprint(c)
                  THEN insert_char_fatal(s) ELSE {}

\* main started on a long file.
InitLong ==
    /\ heap = [n \in Node |-> FreeCell]
    /\ first_line = NULL /\ current_line = NULL
    /\ cursor_row = 0 /\ cursor_col = 0
    /\ viewport_row = 0 /\ viewport_col = 0 /\ max_viewport_col = 0
    /\ term_rows = 24 /\ term_cols = 80
    /\ resize_pending = 0
    /\ file \in LongFiles
    /\ pc = "main"
    /\ key = NoKey
    /\ written = <<>>
    /\ pre = St
    /\ caller = "main" /\ ws = NoSize /\ tty = NoSize /\ notified = 0

\* main, lines 524-533: the window size (ioctl reports w), the first line, and
\* read_file opened on the file.
StartLong(w) ==
    /\ pc = "main"
    /\ LET s0 == get_window_size(St, w)
           n  == Malloc(s0.heap)
       IN  Commit([s0 EXCEPT !.heap = new_line(s0.heap), !.first_line = n,
                             !.current_line = n])
    /\ pc' = "load"
    /\ UNCHANGED << file, key, written, pre >>
    /\ UNCHANGED sigvars

\* read_file, lines 291-302: one pass of the loop, on the next byte of the
\* stream (file.bytes is what is left to read).  read_file's local current_line
\* is the last line of the list: it starts as the only line and moves to each
\* line it links.
LoadByte ==
    /\ pc = "load"
    /\ file.bytes # <<>>
    /\ LET c == Chain(heap, first_line, MaxLines + 1)
           r == ReadStep(heap, c[Len(c)], Head(file.bytes))
       IN  heap' = r.heap
    /\ file' = [file EXCEPT !.bytes = Tail(file.bytes)]
    /\ UNCHANGED << first_line, current_line, cursor_row, cursor_col, viewport_row,
                    viewport_col, max_viewport_col, term_rows, term_cols, resize_pending,
                    pc, key, written, pre >>
    /\ UNCHANGED sigvars

\* read_file, line 291: EOF; main, line 536: the first render.
LoadDone(w) ==
    /\ pc = "load"
    /\ file.bytes = <<>>
    /\ Commit(refresh_screen(St, w))
    /\ pc' = "read"
    /\ pre' = StNext
    /\ UNCHANGED << file, key, written >>
    /\ UNCHANGED sigvars

\* main, lines 542-544, on a long document: read_key returns c and
\* process_input handles it.  The text is kept between LongMin and LongMax bytes.
LongKey(c) ==
    /\ pc = "read"
    /\ isprint(c) /\ c \notin ArrowKeys => TotalBytes(St) < LongMax
    /\ c = BACKSPACE /\ cursor_col > 0 => TotalBytes(St) > LongMin
    /\ c = ENTER => get_total_lines(St) < MaxLines
    /\ Commit(process_input(St, c))
    /\ key' = c
    /\ written' = <<>>
    /\ pc' = "refresh"
    /\ UNCHANGED << file, pre >>
    /\ UNCHANGED sigvars

\* main, lines 542-544: read_key returns c and an allocation inside
\* process_input fails: fatal() ends the process (pc "abort").
AllocFails(c) ==
    /\ pc = "read"
    /\ c = ENTER => get_total_lines(St) < MaxLines
    /\ \E t \in process_input_fatal(St, c) : Commit(t)
    /\ key' = c
    /\ pc' = "abort"
    /\ UNCHANGED << file, written, pre >>
    /\ UNCHANGED sigvars

NextLong ==
    \/ \E w \in WideSizes : StartLong(w)
    \/ LoadByte
    \/ \E w \in WideSizes : LoadDone(w)
    \/ \E c \in LongKeys : LongKey(c)
    \/ \E w \in Reported(WideSizes) : Refresh(w)
    \/ \E c \in LongKeys : AllocFails(c)

\* The program loading and editing a long document, allocations failing at
\* any point of an edit.
SpecLong == InitLong /\ [][NextLong]_vars

\* ------------------------------------------- the loop, step by step
\* main and refresh_screen one statement at a time, with handle_sigwinch run
\* between any two of them.  pc names the statement about to run:
\*   "main_ioctl" (main:524, get_window_size:121), "main_set" (122-130, then
\*   main:526-534), "refresh_test" (510), "refresh_reset" (511),
\*   "refresh_ioctl" (512, 121), "refresh_set" (122-130), "refresh_draw"
\*   (514-518), "loop_test" (539), "loop_read" (542-544), "exit".
\* The keys typed here: 'a' and ESC.
SigKeys == {97, ESC}

\* main has installed the handler (line 522); the terminal has some size.
InitSig ==
    /\ heap = [n \in Node |-> FreeCell]
    /\ first_line = NULL /\ current_line = NULL
    /\ cursor_row = 0 /\ cursor_col = 0
    /\ viewport_row = 0 /\ viewport_col = 0 /\ max_viewport_col = 0
    /\ term_rows = 24 /\ term_cols = 80
    /\ resize_pending = 0
    /\ file = NoFile
    /\ pc = "main_ioctl"
    /\ key = NoKey
    /\ written = <<>>
    /\ pre = St
    /\ caller = "main" /\ ws = NoSize /\ tty \in WinSizes /\ notified = 0

\* The terminal is resized to w and SIGWINCH is delivered: handle_sigwinch
\* (line 135) runs, whatever statement the program is at.
Winch(w) ==
    /\ pc # "exit"
    /\ notified < MaxSignals
    /\ tty' = w
    /\ resize_pending' = 1
    /\ notified' = notified + 1
    /\ UNCHANGED << heap, first_line, current_line, cursor_row, cursor_col, viewport_row,
                    viewport_col, max_viewport_col, term_rows, term_cols, file, pc, key,
                    written, pre, caller, ws >>

\* get_window_size, line 121: ioctl fills ws with the terminal's size.
Ioctl ==
    /\ pc \in {"main_ioctl", "refresh_ioctl"}
    /\ ws' = tty
    /\ pc' = IF pc = "main_ioctl" THEN "main_set" ELSE "refresh_set"
    /\ UNCHANGED << heap, first_line, current_line, cursor_row, cursor_col, viewport_row,
                    viewport_col, max_viewport_col, term_rows, term_cols, resize_pending,
                    file, key, written, pre, caller, tty, notified >>

\* get_window_size, lines 122-130, called from main; then main, lines 526-536:
\* the first line (there is no file) and the call of refresh_screen.
MainSetSize ==
    /\ pc = "main_set"
    /\ LET s0 == get_window_size(St, ws)
           n  == Malloc(s0.heap)
       IN  Commit([s0 EXCEPT !.heap = new_line(s0.heap), !.first_line = n,
                             !.current_line = n])
    /\ caller' = "main"
    /\ pc' = "refresh_test"
    /\ UNCHANGED << file, key, written, pre, ws, tty, notified >>

\* refresh_screen, line 510.
RefreshTest ==
    /\ pc = "refresh_test"
    /\ pc' = IF resize_pending # 0 THEN "refresh_reset" ELSE "refresh_draw"
    /\ UNCHANGED << heap, first_line, current_line, cursor_row, cursor_col, viewport_row,
                    viewport_col, max_viewport_col, term_rows, term_cols, resize_pending,
                    file, key, written, pre, caller, ws, tty, notified >>

\* refresh_screen, line 511.
RefreshReset ==
    /\ pc = "refresh_reset"
    /\ resize_pending' = 0
    /\ pc' = "refresh_ioctl"
    /\ UNCHANGED << heap, first_line, current_line, cursor_row, cursor_col, viewport_row,
                    viewport_col, max_viewport_col, term_rows, term_cols, file, key,
                    written, pre, caller, ws, tty, notified >>

\* Mutant: the flag is cleared after get_window_size has run.
SetSizeThenReset ==
    /\ pc = "refresh_set"
    /\ Commit([get_window_size(St, ws) EXCEPT !.resize_pending = 0])
    /\ pc' = "refresh_draw"
    /\ UNCHANGED << file, key, written, pre, caller, ws, tty, notified >>

\* get_window_size, lines 122-130, called from refresh_screen.
RefreshSetSize ==
    /\ pc = "refresh_set"
    /\ Commit(get_window_size(St, ws))
    /\ pc' = "refresh_draw"
    /\ UNCHANGED << file, key, written, pre, caller, ws, tty, notified >>

\* refresh_screen, lines 514-518, and the return to the caller: main goes on
\* to the loop (539), the loop to read_key (542), the key branch to usleep and
\* the loop's next pass (548, 539).
RefreshDraw ==
    /\ pc = "refresh_draw"
    /\ Commit(draw_rows(check_scroll(St)))
    /\ pc' = IF caller = "loop" THEN "loop_read" ELSE "loop_test"
    /\ UNCHANGED << file, key, written, pre, caller, ws, tty, notified >>

\* main, lines 539-540.
LoopTest ==
    /\ pc = "loop_test"
    /\ pc' = IF resize_pending # 0 THEN "refresh_test" ELSE "loop_read"
    /\ caller' = IF resize_pending # 0 THEN "loop" ELSE caller
    /\ UNCHANGED << heap, first_line, current_line, cursor_row, cursor_col, viewport_row,
                    viewport_col, max_viewport_col, term_rows, term_cols, resize_pending,
                    file, key, written, pre, ws, tty, notified >>

\* main, lines 542-545: read_key returns c, process_input handles it and
\* refresh_screen is called.
LoopKey(c) ==
    /\ pc = "loop_read"
    /\ isprint(c) => TotalBytes(St) < MaxBytes
    /\ Commit(process_input(St, c))
    /\ key' = c
    /\ caller' = "key"
    /\ pc' = "refresh_test"
    /\ UNCHANGED << file, written, pre, ws, tty, notified >>

\* main, lines 542-543 and 548: read_key returns -1 after its timeout.
LoopTimeout ==
    /\ pc = "loop_read"
    /\ pc' = "loop_test"
    /\ UNCHANGED << heap, first_line, current_line, cursor_row, cursor_col, viewport_row,
                    viewport_col, max_viewport_col, term_rows, term_cols, resize_pending,
                    file, key, written, pre, caller, ws, tty, notified >>

\* process_input, lines 418-420: Ctrl-Q.
LoopQuit ==
    /\ pc = "loop_read"
    /\ pc' = "exit"
    /\ UNCHANGED << heap, first_line, current_line, cursor_row, cursor_col, viewport_row,
                    viewport_col, max_viewport_col, term_rows, term_cols, resize_pending,
                    file, key, written, pre, caller, ws, tty, notified >>

\* A step of the program (any step but the delivery of a signal).
LoopStep ==
    \/ Ioctl
    \/ MainSetSize
    \/ RefreshTest
    \/ RefreshReset
    \/ RefreshSetSize
    \/ RefreshDraw
    \/ LoopTest
    \/ \E c \in SigKeys : LoopKey(c)
    \/ LoopTimeout
    \/ LoopQuit

NextSig ==
    \/ \E w \in WinSizes : Winch(w)
    \/ LoopStep

\* The program keeps running: no statement blocks for ever (read_key returns
\* after at most its 100 ms timeout, usleep after 10 ms).
SpecSig == InitSig /\ [][NextSig]_vars /\ WF_vars(LoopStep)

\* ============================================================ claims
\* The line at (0-based) row r of s, and its len field.
NodeAt(s, r) == Chain(s.heap, s.first_line, MaxLines + 1)[r + 1]
LenAt(s, r) == s.heap[NodeAt(s, r)].len

\* Just after process_input handled a key, before the refresh pass.
Handled(c) == pc = "refresh" /\ key = c

\* C1: from the moment main has created the first line, after any sequence of
\* events the list reachable from first_line holds at least one line.
NonEmpty == pc # "main" => get_total_lines(St) >= 1

\* A merge has just removed a line of a two-line document.
NonEmptyWitness ==
    Handled(BACKSPACE) /\ get_total_lines(pre) = 2 /\ get_total_lines(St) = 1

\* The cursor of s addresses a row of the list and a column of that row's line.
CursorInBounds(s) ==
    /\ 0 <= s.cursor_row /\ s.cursor_row < get_total_lines(s)
    /\ 0 <= s.cursor_col /\ s.cursor_col <= LenAt(s, s.cursor_row)

\* C2: after every refresh pass the cursor addresses a position of the
\* document: 0 <= cursor_row < get_total_lines() and 0 <= cursor_col <= the
\* length of the line at cursor_row.
CursorBound == pc = "read" => CursorInBounds(St)

\* The cursor rests at the end of a non-empty last line, scrolled into view.
CursorBoundWitness ==
    /\ pc = "read" /\ cursor_row = get_total_lines(St) - 1 /\ cursor_row > 0
    /\ cursor_col = LenAt(St, cursor_row) /\ cursor_col > 0
    /\ viewport_row > 0 /\ viewport_col > 0

\* A refresh pass is about to run: after a key, or for a pending resize.
RefreshDue == pc = "refresh" \/ (pc = "read" /\ resize_pending # 0)

\* The cursor of s lies inside the viewport of s, rows and columns.
Contained(s) ==
    /\ s.viewport_row <= s.cursor_row /\ s.cursor_row < s.viewport_row + s.term_rows
    /\ s.viewport_col <= s.cursor_col /\ s.cursor_col < s.viewport_col + s.term_cols

\* C3: whenever a refresh pass runs, whatever size ioctl reports (term_rows >= 1,
\* term_cols >= 1), the state check_scroll returns has the cursor inside the
\* viewport: viewport_row <= cursor_row < viewport_row + term_rows and
\* viewport_col <= cursor_col < viewport_col + term_cols.
ViewportContainment ==
    RefreshDue =>
        \A w \in Reported(WinSizes) : Contained(check_scroll(ServeResize(St, w)))

\* C4: at the end of every refresh pass the on-screen cursor lies inside the
\* grid of term_rows by term_cols cells.  (Checked under SpecWide, where no
\* terminal is narrower than the scroll margin.)
OnScreenCursor ==
    pc = "read" =>
        /\ 0 <= screen_row(St) /\ screen_row(St) < term_rows
        /\ 0 <= screen_col(St) /\ screen_col(St) < term_cols

\* The lines L with lines r and r+1 (1-based) replaced by their concatenation.
MergedLines(L, r) ==
    [i \in 1..(Len(L) - 1) |-> IF i < r THEN L[i]
                               ELSE IF i = r THEN L[r] \o L[r + 1]
                               ELSE L[i + 1]]

\* C5: Backspace at (row, 0), row > 0, replaces lines row-1 and row by their
\* concatenation, keeps every other line in place and order, removes exactly
\* one line and puts the cursor at (row-1, old length of line row-1).
BackspaceMerge ==
    (Handled(BACKSPACE) /\ pre.cursor_col = 0 /\ pre.cursor_row > 0) =>
        /\ Lines(St) = MergedLines(Lines(pre), pre.cursor_row)
        /\ get_total_lines(St) = get_total_lines(pre) - 1
        /\ cursor_row = pre.cursor_row - 1
        /\ cursor_col = Len(Lines(pre)[pre.cursor_row])

\* The middle line of three was merged into a non-empty first line.
BackspaceMergeWitness ==
    /\ Handled(BACKSPACE) /\ pre.cursor_col = 0 /\ pre.cursor_row = 1
    /\ get_total_lines(pre) = 3
    /\ Lines(pre)[1] # <<>> /\ Lines(pre)[2] # <<>>

\* The lines L with the line at 0-based row r split at column c.
SplitLines(L, r, c) ==
    [i \in 1..(Len(L) + 1) |-> IF i <= r THEN L[i]
                               ELSE IF i = r + 1 THEN SubSeq(L[r + 1], 1, c)
                               ELSE IF i = r + 2 THEN SubSeq(L[r + 1], c + 1, Len(L[r + 1]))
                               ELSE L[i - 1]]

\* C6: Enter at (row, col) truncates line row to its first col bytes, puts the
\* bytes from col on in a new line right after it, shifts the later lines down
\* by one, leaves the others alone, adds exactly one line and puts the cursor
\* at (row+1, 0).
EnterSplit ==
    Handled(ENTER) =>
        /\ Lines(St) = SplitLines(Lines(pre), pre.cursor_row, pre.cursor_col)
        /\ get_total_lines(St) = get_total_lines(pre) + 1
        /\ cursor_row = pre.cursor_row + 1
        /\ cursor_col = 0

\* A first line was split mid-line with a line after it.
EnterSplitWitness ==
    /\ Handled(ENTER) /\ pre.cursor_row = 0 /\ get_total_lines(pre) = 2
    /\ 0 < pre.cursor_col /\ pre.cursor_col < LenAt(pre, 0)

\* C7: delete_char run right after insert_newline gives back the lines, the
\* line count and the cursor that held before insert_newline.
SplitMergeInverse ==
    Handled(ENTER) =>
        LET t == delete_char(St)
        IN  /\ Lines(t) = Lines(pre)
            /\ get_total_lines(t) = get_total_lines(pre)
            /\ t.cursor_row = pre.cursor_row
            /\ t.cursor_col = pre.cursor_col

\* The split was mid-line, on a line that is not the first.
SplitMergeInverseWitness ==
    /\ Handled(ENTER) /\ pre.cursor_row = 1
    /\ 0 < pre.cursor_col /\ pre.cursor_col < LenAt(pre, 1)
    /\ delete_char(St).cursor_row = 1

\* C8: delete_char run right after insert_char(c) gives back every line, the
\* current line's length and the cursor that held before insert_char.
InsertDeleteInverse ==
    (pc = "refresh" /\ key \in PrintableKeys) =>
        LET t == delete_char(St)
        IN  /\ Lines(t) = Lines(pre)
            /\ LenAt(t, t.cursor_row) = LenAt(pre, pre.cursor_row)
            /\ t.cursor_row = pre.cursor_row
            /\ t.cursor_col = pre.cursor_col

\* A byte was inserted before the end of a line that is not the first.
InsertDeleteInverseWitness ==
    /\ pc = "refresh" /\ key \in PrintableKeys /\ pre.cursor_row = 1
    /\ pre.cursor_col < LenAt(pre, 1)
    /\ cursor_col = pre.cursor_col + 1

\* C9: Save with no edit key since the load writes the very bytes loaded.
LoadSaveRoundTrip == (Handled(CTRL_S) /\ file.exists) => written = file.bytes

\* A file of two lines, each ended by a line break, was loaded and saved.
LoadSaveRoundTripWitness ==
    Handled(CTRL_S) /\ file.exists /\ file.bytes = <<97, NL, 98, NL>>

\* The lines L in order, one line break between neighbours.
RECURSIVE Joined(_)
Joined(L) ==
    IF Len(L) = 0 THEN <<>>
    ELSE IF Len(L) = 1 THEN L[1]
    ELSE L[1] \o <<NL>> \o Joined(Tail(L))

\* C10: no line ever holds a line-break byte, so save_file writes the n lines
\* in order with one line break between neighbours: n - 1 line breaks in all.
SaveLineBreaks ==
    pc # "main" =>
        LET L == Lines(St)
            out == save_file(St)
        IN  /\ \A i \in 1..Len(L) : \A j \in 1..Len(L[i]) : L[i][j] # NL
            /\ out = Joined(L)
            /\ Occurrences(out, NL) = get_total_lines(St) - 1

\* Three lines holding bytes were saved.
SaveLineBreaksWitness ==
    /\ Handled(CTRL_S) /\ get_total_lines(St) = 3 /\ TotalBytes(St) > 0
    /\ Occurrences(written, NL) = 2

\* The nodes of the list of s, from first_line along next.
Nodes(s) == Chain(s.heap, s.first_line, MaxLines + 1)

\* The sequence q without its i-th element.
Without(q, i) == [j \in 1..(Len(q) - 1) |-> IF j < i THEN q[j] ELSE q[j + 1]]

\* C11: for every line L of the document, delete_line(L, &first_line) (a) if L
\* is the only line keeps it in the list with length 0, leaves the head alone
\* and returns L; (b) otherwise unlinks L and keeps the other lines in order,
\* returns L's predecessor if it has one and else its successor, and moves the
\* head to L's successor exactly when L was the head.
DeleteLineContract ==
    pc = "read" =>
        \A r \in 1..get_total_lines(St) :
            LET c == Nodes(St)
                L == c[r]
                d == delete_line(heap, L, first_line)
                t == [St EXCEPT !.heap = d.heap, !.first_line = d.first_line]
            IN  IF Len(c) = 1
                THEN /\ Nodes(t) = c /\ d.heap[L].len = 0 /\ Lines(t) = << <<>> >>
                     /\ d.first_line = first_line /\ d.ret = L
                ELSE /\ Nodes(t) = Without(c, r) /\ Lines(t) = Without(Lines(St), r)
                     /\ ~d.heap[L].live
                     /\ d.ret = (IF r > 1 THEN c[r - 1] ELSE c[2])
                     /\ d.first_line = (IF r = 1 THEN c[2] ELSE first_line)

\* Three lines, two of them with text: removing the head moves the head,
\* removing the middle line returns the head.
DeleteLineContractWitness ==
    /\ pc = "read" /\ get_total_lines(St) = 3 /\ TotalBytes(St) = MaxBytes
    /\ delete_line(heap, first_line, first_line).first_line = NodeAt(St, 1)
    /\ delete_line(heap, NodeAt(St, 1), first_line).ret = first_line

\* C12: Backspace with the cursor at (0, 0) leaves every line's content, the
\* line count, first_line, current_line and the cursor as they were.
BackspaceAtStart ==
    (Handled(BACKSPACE) /\ pre.cursor_row = 0 /\ pre.cursor_col = 0) =>
        /\ Lines(St) = Lines(pre)
        /\ get_total_lines(St) = get_total_lines(pre)
        /\ first_line = pre.first_line
        /\ current_line = pre.current_line
        /\ cursor_row = 0 /\ cursor_col = 0

\* Backspace was pressed at the start of a two-line document whose first line
\* holds text.
BackspaceAtStartWitness ==
    /\ Handled(BACKSPACE) /\ pre.cursor_row = 0 /\ pre.cursor_col = 0
    /\ get_total_lines(pre) = 2 /\ LenAt(pre, 0) > 0

\* The keys that are no printable byte, Enter or Backspace: the arrows, Save,
\* ESC and the control bytes.
FrameKeys == Keys \ (PrintableKeys \cup {ENTER, BACKSPACE})

\* A step of an event other than an edit: a key of FrameKeys being processed,
\* the refresh pass after it, a resize being notified or served, a timeout.
FrameStep ==
    \/ pc = "read" /\ pc' = "read"
    \/ pc = "read" /\ pc' = "refresh" /\ key' \in FrameKeys
    \/ pc = "refresh" /\ key \in FrameKeys

\* A step of a byte process_input has no case for and isprint rejects, or of
\* the refresh pass after it.
IgnoredStep ==
    \/ pc = "read" /\ pc' = "refresh" /\ key' \in OtherKeys
    \/ pc = "refresh" /\ key \in OtherKeys

\* C13: processing an event other than a printable byte, Enter or Backspace
\* (arrows, Save, resize, timeout, ESC, control bytes), and the refresh pass
\* after it, leave the line contents and the line count as they were; for the
\* bytes that are neither printable nor commands the cursor stays too.
OnlyEditsMutate ==
    [][ /\ FrameStep => /\ Lines(StNext) = Lines(St)
                        /\ get_total_lines(StNext) = get_total_lines(St)
        /\ IgnoredStep => cursor_row' = cursor_row /\ cursor_col' = cursor_col ]_vars

\* ESC was pressed with the cursor inside the second line of a document.
OnlyEditsMutateWitness ==
    /\ Handled(ESC) /\ get_total_lines(St) = 2 /\ cursor_row = 1 /\ cursor_col > 0
    /\ Lines(St) = Lines(pre)

\* The lines L with byte c put at column col of the line at 0-based row r.
InsertedLines(L, r, col, c) ==
    [i \in 1..Len(L) |-> IF i = r + 1
                         THEN SubSeq(L[i], 1, col) \o <<c>> \o SubSeq(L[i], col + 1, Len(L[i]))
                         ELSE L[i]]

\* C15: insert_char(c) at (row, col) turns line row from prefix ++ suffix
\* (split at col) into prefix ++ [c] ++ suffix, its length growing by one;
\* cursor_col advances by one, cursor_row stays; every other line and the line
\* count stay.
InsertCharResult ==
    (pc = "refresh" /\ key \in PrintableKeys) =>
        /\ Lines(St) = InsertedLines(Lines(pre), pre.cursor_row, pre.cursor_col, key)
        /\ LenAt(St, pre.cursor_row) = LenAt(pre, pre.cursor_row) + 1
        /\ get_total_lines(St) = get_total_lines(pre)
        /\ cursor_row = pre.cursor_row
        /\ cursor_col = pre.cursor_col + 1

\* A byte was inserted before the last byte of the second line.
InsertCharResultWitness ==
    /\ pc = "refresh" /\ key \in PrintableKeys /\ pre.cursor_row = 1
    /\ pre.cursor_col = 0 /\ LenAt(pre, 1) = 1 /\ Lines(St)[2][1] # Lines(St)[2][2]

\* C17: on a terminal with at least one text row, whenever process_input is
\* about to handle an event, current_line is a live node of the list from
\* first_line, and it is the node at index cursor_row.
CurrentLineResolved ==
    (pc = "read" /\ term_rows >= 1) =>
        /\ current_line # NULL
        /\ heap[current_line].live
        /\ \E i \in 1..get_total_lines(St) : Nodes(St)[i] = current_line
        /\ cursor_row < get_total_lines(St)
        /\ current_line = NodeAt(St, cursor_row)

\* One text row, the cursor on the last of three lines, the viewport scrolled
\* down to it.
CurrentLineResolvedWitness ==
    /\ pc = "read" /\ term_rows = 1 /\ get_total_lines(St) = 3
    /\ cursor_row = 2 /\ viewport_row = 2 /\ current_line = NodeAt(St, 2)

\* The list of s is a finite acyclic doubly-linked chain of live lines.
WellFormed(s) ==
    LET c == Nodes(s)
    IN  /\ s.first_line # NULL
        /\ s.heap[s.first_line].prev = NULL
        /\ Len(c) <= MaxLines
        /\ \A i, j \in 1..Len(c) : c[i] = c[j] => i = j
        /\ s.heap[c[Len(c)]].next = NULL
        /\ \A i \in 1..Len(c) :
              LET L == s.heap[c[i]]
              IN  /\ L.live
                  /\ L.next # NULL => s.heap[L.next].prev = c[i]
                  /\ L.prev # NULL => s.heap[L.prev].next = c[i]

\* C18: once loaded, and after every edit, the list is a finite acyclic
\* doubly-linked chain: first_line is not NULL and has no prev, the last line
\* has no next, next and prev mirror each other, and no freed line is reachable.
ListWellFormed == pc # "main" => WellFormed(St)

\* The middle line of three has just been merged away and its successor now
\* points back at the head.
ListWellFormedWitness ==
    /\ Handled(BACKSPACE) /\ get_total_lines(pre) = 3 /\ pre.cursor_row = 1
    /\ get_total_lines(St) = 2 /\ heap[NodeAt(St, 1)].prev = first_line

\* The flat offset of the cursor of s: cursor_col plus length + 1 for every
\* line before cursor_row.
RECURSIVE OffsetOfRow(_, _)
OffsetOfRow(L, r) == IF r = 0 THEN 0 ELSE OffsetOfRow(L, r - 1) + Len(L[r]) + 1
FlatOffset(s) == s.cursor_col + OffsetOfRow(Lines(s), s.cursor_row)

\* The cursor of s is at the end of the last line.
AtDocumentEnd(s) ==
    s.cursor_row = get_total_lines(s) - 1 /\ s.cursor_col = LenAt(s, s.cursor_row)

\* C20: Right moves the flat offset up by exactly one (wrapping to column 0 of
\* the next line at a line's end) and does nothing at the end of the last line;
\* Left moves it down by exactly one (wrapping to the end of the previous line
\* at column 0) and does nothing at (0, 0); Left as the next key after a Right
\* that moved puts the cursor back.
HorizontalWalk ==
    /\ Handled(ARROW_RIGHT) =>
          /\ FlatOffset(St) = FlatOffset(pre) + (IF AtDocumentEnd(pre) THEN 0 ELSE 1)
          /\ ~AtDocumentEnd(pre) =>
                \A w \in Reported(WinSizes) :
                    LET t == process_input(refresh_screen(St, w), ARROW_LEFT)
                    IN  t.cursor_row = pre.cursor_row /\ t.cursor_col = pre.cursor_col
    /\ Handled(ARROW_LEFT) =>
          FlatOffset(St) = FlatOffset(pre)
                             - (IF pre.cursor_row = 0 /\ pre.cursor_col = 0 THEN 0 ELSE 1)

\* Right has wrapped from the end of a non-empty first line to the second line.
HorizontalWalkWitness ==
    /\ Handled(ARROW_RIGHT) /\ pre.cursor_row = 0 /\ pre.cursor_col = LenAt(pre, 0)
    /\ pre.cursor_col > 0 /\ cursor_row = 1 /\ cursor_col = 0

\* C14: when an allocation fails inside insert_char, insert_newline or the
\* merge of delete_char, the process reaches fatal() with every line's content
\* and length, the order and number of the lines, and the cursor as they were
\* before the operation began.
NoPartialEdit ==
    pc = "abort" =>
        /\ Nodes(St) = Nodes(pre)
        /\ Lines(St) = Lines(pre)
        /\ \A r \in 0..(get_total_lines(pre) - 1) : LenAt(St, r) = LenAt(pre, r)
        /\ get_total_lines(St) = get_total_lines(pre)
        /\ cursor_row = pre.cursor_row /\ cursor_col = pre.cursor_col

\* Enter split a line mid-text, the new line had been allocated, and growing
\* it for the tail failed.
NoPartialEditWitness ==
    /\ pc = "abort" /\ key = ENTER /\ heap # pre.heap
    /\ LenAt(pre, pre.cursor_row) - pre.cursor_col >= INITIAL_CAP

\* C16: once loaded, and after every edit, every line has len < cap; and
\* expand_line(line, needed), for any needed, leaves len + needed < cap and
\* never lowers cap.
CapacityInvariant ==
    pc # "main" =>
        \A i \in 1..get_total_lines(St) :
            LET n == Nodes(St)[i]
            IN  /\ heap[n].len < heap[n].cap
                /\ \A needed \in 0..LongMax :
                      LET h2 == expand_line(heap, n, needed)
                      IN  /\ h2[n].len + needed < h2[n].cap
                          /\ h2[n].cap >= heap[n].cap

\* A split has put a tail of at least INITIAL_CAP bytes in a new line, which
\* was grown for it.
CapacityInvariantWitness ==
    /\ Handled(ENTER) /\ LenAt(St, cursor_row) >= INITIAL_CAP
    /\ heap[current_line].cap = 2 * LenAt(St, cursor_row)

\* The program's dimensions are those of the terminal as it is now.
DimsCurrent ==
    /\ term_rows = get_window_size(St, tty).term_rows
    /\ term_cols = get_window_size(St, tty).term_cols

\* C19: with SIGWINCH delivered between any two statements, whenever the loop
\* is idle in read_key with resize_pending = 0 the dimensions were read after
\* the last notification (they are the terminal's); and once notifications
\* stop, the loop, with no key needed, reaches and keeps resize_pending = 0
\* with the terminal's dimensions, refresh passes completing for ever.
ResizeNotLost ==
    /\ []((pc = "loop_read" /\ resize_pending = 0) => DimsCurrent)
    /\ <>[](pc = "exit" \/ (resize_pending = 0 /\ DimsCurrent))
    /\ []<>(pc \in {"exit", "loop_read"})

\* A notification of a new size has arrived inside get_window_size, after ioctl
\* read the old size and after the flag was cleared.
ResizeNotLostWitness ==
    /\ pc = "refresh_set" /\ resize_pending = 1 /\ ws # tty /\ notified = MaxSignals

====
